---- MODULE Spec2Model ----
(***************************************************************************)
(* A model of elasticstat.py: the ElasticStat polling loop (printStats),   *)
(* its role classifier (get_role), its per-name counter stores             *)
(* (get_gc_stats, get_fd_stats, get_http_conns), the record builder        *)
(* (process_node) and the per-role bucket walk (process_role).             *)
(*                                                                         *)
(* Formatting is modelled by what str.format does on the values that       *)
(* matter to the record: "{0}|{1}".format(a, b) is ToString(a) \o "|" \o   *)
(* ToString(b).  The fixed-width column padding of the templates and the   *)
(* pass-through columns (load, mem, heap, old pool size, thread pools,     *)
(* transport connections) touch no state and are left out of the rows.     *)
(***************************************************************************)
EXTENDS Integers, Sequences, FiniteSets, TLC

\* ---------------------------------------------------------------- bounds
\* A cumulative counter reading is driven by a tick in 0..MaxCount.
MaxCount == 1

NodeIds == {1, 2}
Names == {"a", "b"}
Ticks == 0..MaxCount

\* ------------------------------------------------------------- variables
VARIABLES
    node_counters,   \* self.node_counters: gc / fd / hconn, each keyed by node NAME
    nodes_list,      \* self.nodes_list: known ids, in registration order
    nodes_by_role,   \* self.nodes_by_role: role -> list of ids
    role_order,      \* iteration order of the keys of self.nodes_by_role
    node_names,      \* self.node_names: id -> name
    new_nodes,       \* self.new_nodes
    active_master,   \* self.active_master
    cluster_health,  \* local of printStats
    nodes_stats,     \* local of printStats: id -> node document
    node_results,    \* local of printStats: the SimpleQueue of rows
    role_iter,       \* the dict iterator of "for role in self.nodes_by_role"
    out,             \* lines printed since the running iteration began
    pc,              \* position of the process
    cluster,         \* what the monitored cluster can answer (environment)
    seen,            \* history: the ids the snapshots of earlier iterations held
    elected,         \* environment: the id of the node the cluster elected master
    last_obs         \* history: id -> name and readings of the last row built for it

vars == <<node_counters, nodes_list, nodes_by_role, role_order, node_names,
          new_nodes, active_master, cluster_health, nodes_stats, node_results,
          role_iter, out, pc, cluster, seen, elected, last_obs>>

\* ---------------------------------------------------------------- helpers
EmptyMap == [x \in {} |-> 0]

\* d[k] = v, adding k when it is no key yet (Python: d[k] = v).
Put(d, k, v) == [x \in (DOMAIN d) \cup {k} |-> IF x = k THEN v ELSE d[x]]

\* All orders in which the elements of S can be enumerated.
Orders(S) ==
    {s \in [1..Cardinality(S) -> S] : \A i, j \in DOMAIN s : i # j => s[i] # s[j]}

\* list.remove(x): drops the first occurrence of x.
RECURSIVE Remove(_, _)
Remove(s, x) ==
    IF s = <<>> THEN <<>>
    ELSE IF Head(s) = x THEN Tail(s)
    ELSE <<Head(s)>> \o Remove(Tail(s), x)

SeqToSet(s) == {s[i] : i \in DOMAIN s}

Count(s, x) == Cardinality({i \in DOMAIN s : s[i] = x})

\* ------------------------------------------------------- the environment
\* The 'attributes' sub-document of a node: a map whose keys are among
\* "master" and "data" (Elasticsearch leaves a key out when it is true).
FlagValues == {"true", "false", "maybe"}
AttributeSets ==
    UNION {[K -> FlagValues] : K \in SUBSET {"master", "data"}}

NoAttrs == EmptyMap
\* One attribute set per role get_role can answer.
RoleAttributes ==
    { NoAttrs,
      [k \in {"data"} |-> "false"],
      [k \in {"master"} |-> "false"],
      [k \in {"master", "data"} |-> "false"],
      [k \in {"master"} |-> "maybe"] }

\* The document nodes.stats(human=True) holds for one node.  Its cumulative
\* counters are driven by one tick t, each with its own slope, so that two
\* counters never show the same non-zero difference.
NodeDoc(name, attributes, t) ==
    [ name            |-> name,
      attributes      |-> attributes,
      gc_old_count    |-> t,
      gc_old_time     |-> 10 + t,
      gc_young_count  |-> 2 * t,
      gc_young_time   |-> 20 + t,
      evictions       |-> 3 * t,
      tripped         |-> 4 * t,
      current_open    |-> 30 + t,
      total_opened    |-> 5 * t,
      merges_time     |-> ToString(40 + t) \o "s",
      throttle_time   |-> ToString(50 + t) \o "ms",
      docs_count      |-> 60 + t,
      docs_deleted    |-> 70 + t ]

\* What a cluster can answer: the ids it may report, the names each id may
\* carry, the attribute sets, the counter ticks and the ids of the nodes it
\* may elect master (an elected node need not be in the nodes.stats answer).
\* The profiles cut the input space along the things the engine tracks:
\* membership and roles, counters per name (names shared and changing),
\* counters of nodes that change role, and the record's labels.
TopologyCluster ==
    [ ids     |-> NodeIds,
      names   |-> [n \in NodeIds |-> {IF n = 1 THEN "a" ELSE "b"}],
      attrs   |-> RoleAttributes,
      ticks   |-> {0},
      masters |-> {1} ]

CounterCluster ==
    [ ids     |-> NodeIds,
      names   |-> [n \in NodeIds |-> IF n = 1 THEN {"a"} ELSE Names],
      attrs   |-> {NoAttrs},
      ticks   |-> Ticks,
      masters |-> {1} ]

RoleCounterCluster ==
    [ ids     |-> NodeIds,
      names   |-> [n \in NodeIds |-> {IF n = 1 THEN "a" ELSE "b"}],
      attrs   |-> {NoAttrs, [k \in {"master"} |-> "false"]},
      ticks   |-> Ticks,
      masters |-> {1} ]

LabelCluster ==
    [ ids     |-> {1},
      names   |-> [n \in NodeIds |-> Names],
      attrs   |-> AttributeSets,
      ticks   |-> {0},
      masters |-> NodeIds ]

Clusters == {TopologyCluster, CounterCluster, RoleCounterCluster, LabelCluster}

\* Every nodes.stats answer of cluster c: any subset of its ids, each with one
\* of its names, attribute sets and ticks.
DocsOf(c, n) ==
    {NodeDoc(nm, at, t) : nm \in c.names[n], at \in c.attrs, t \in c.ticks}

SnapshotsOf(c) ==
    UNION { {s \in [S -> UNION {DocsOf(c, n) : n \in S}] :
                \A n \in S : s[n] \in DocsOf(c, n)} : S \in SUBSET c.ids }

\* What cat.master(h="node") answers when node e is the elected master: the
\* name of e.
MasterNames(c, snap, e) ==
    IF e \in DOMAIN snap THEN {snap[e].name} ELSE c.names[e]

\* The document cluster.health() answers.
HealthDoc == [cluster_name |-> "es", status |-> "green"]

\* ---------------------------------------------------------------- get_role
\* get_role with the answers of the two one-flag cases exchanged.
get_role_swapped(attributes) ==
    LET isdata   == IF "data" \in DOMAIN attributes THEN attributes["data"] ELSE "true"
        ismaster == IF "master" \in DOMAIN attributes THEN attributes["master"] ELSE "true"
    IN  IF ismaster = "true" /\ isdata = "true" THEN "ALL"
        ELSE IF ismaster = "true" /\ isdata = "false" THEN "DATA"
        ELSE IF ismaster = "false" /\ isdata = "true" THEN "MST"
        ELSE IF ismaster = "false" /\ isdata = "false" THEN "RTR"
        ELSE "UNK"

get_role(attributes) ==
    LET isdata   == IF "data" \in DOMAIN attributes THEN attributes["data"] ELSE "true"
        ismaster == IF "master" \in DOMAIN attributes THEN attributes["master"] ELSE "true"
    IN  IF ismaster = "true" /\ isdata = "true" THEN "ALL"
        ELSE IF ismaster = "true" /\ isdata = "false" THEN "MST"
        ELSE IF ismaster = "false" /\ isdata = "true" THEN "DATA"
        ELSE IF ismaster = "false" /\ isdata = "false" THEN "RTR"
        ELSE "UNK"

\* ------------------------------------------------------- counter stores
\* get_gc_stats that shows no delta below zero.
get_gc_stats_clamped(gc, node_name, node) ==
    IF node_name \notin DOMAIN gc
    THEN [ old_gc |-> "-|-", young_gc |-> "-|-",
           store |-> Put(gc, node_name,
                         [old |-> node.gc_old_count, young |-> node.gc_young_count]) ]
    ELSE LET old_d   == node.gc_old_count - gc[node_name].old
             young_d == node.gc_young_count - gc[node_name].young
             old_gc_delta   == IF old_d < 0 THEN 0 ELSE old_d
             young_gc_delta == IF young_d < 0 THEN 0 ELSE young_d
         IN  [ old_gc   |-> ToString(old_gc_delta) \o "|" \o ToString(old_gc_delta) \o "ms",
               young_gc |-> ToString(young_gc_delta) \o "|" \o ToString(young_gc_delta) \o "ms",
               store |-> Put(gc, node_name,
                             [old |-> node.gc_old_count, young |-> node.gc_young_count]) ]

\* Each returns the rendered text and the store after the call.
get_gc_stats(gc, node_name, node) ==
    IF node_name \notin DOMAIN gc
    THEN [ old_gc |-> "-|-", young_gc |-> "-|-",
           store |-> Put(gc, node_name,
                         [old |-> node.gc_old_count, young |-> node.gc_young_count]) ]
    ELSE LET old_gc_delta   == node.gc_old_count - gc[node_name].old
             young_gc_delta == node.gc_young_count - gc[node_name].young
         IN  [ old_gc   |-> ToString(old_gc_delta) \o "|" \o ToString(old_gc_delta) \o "ms",
               young_gc |-> ToString(young_gc_delta) \o "|" \o ToString(young_gc_delta) \o "ms",
               store |-> Put(gc, node_name,
                             [old |-> node.gc_old_count, young |-> node.gc_young_count]) ]

get_fd_stats(fd, node_name, current_evictions, current_tripped) ==
    IF node_name \notin DOMAIN fd
    THEN [ text  |-> "-|-",
           store |-> Put(fd, node_name, [fde |-> current_evictions, fdt |-> current_tripped]) ]
    ELSE LET fde_delta == current_evictions - fd[node_name].fde
             fdt_delta == current_tripped - fd[node_name].fdt
         IN  [ text  |-> ToString(fde_delta) \o "|" \o ToString(fdt_delta),
               store |-> Put(fd, node_name,
                             [fde |-> current_evictions, fdt |-> current_tripped]) ]

\* get_http_conns that diffs in the wrong direction.
get_http_conns_reversed(hconn, node_name, node) ==
    IF node_name \notin DOMAIN hconn
    THEN [ text  |-> ToString(node.current_open) \o "|-",
           store |-> Put(hconn, node_name, node.total_opened) ]
    ELSE LET open_delta == hconn[node_name] - node.total_opened
         IN  [ text  |-> ToString(node.current_open) \o "|" \o ToString(open_delta),
               store |-> Put(hconn, node_name, node.total_opened) ]

get_http_conns(hconn, node_name, node) ==
    IF node_name \notin DOMAIN hconn
    THEN [ text  |-> ToString(node.current_open) \o "|-",
           store |-> Put(hconn, node_name, node.total_opened) ]
    ELSE LET open_delta == node.total_opened - hconn[node_name]
         IN  [ text  |-> ToString(node.current_open) \o "|" \o ToString(open_delta),
               store |-> Put(hconn, node_name, node.total_opened) ]

\* ------------------------------------------------------------ process_node
\* process_node that takes a master-only node for a data node.
process_node_master_data(role, node, counters, master) ==
    LET gc == get_gc_stats(counters.gc, node.name, node)
        fd == get_fd_stats(counters.fd, node.name, node.evictions, node.tripped)
        hc == get_http_conns(counters.hconn, node.name, node)
        isdata == role \in {"DATA", "ALL", "MST"}
    IN  [ row |->
            [ kind           |-> "node",
              name           |-> node.name,
              role           |-> IF node.name = master THEN role \o "*" ELSE role,
              old_gc         |-> gc.old_gc,
              young_gc       |-> gc.young_gc,
              fielddata      |-> fd.text,
              http_conn      |-> hc.text,
              merge_time     |-> IF isdata THEN node.merges_time ELSE "-",
              store_throttle |-> IF isdata THEN node.throttle_time ELSE "-",
              docs           |-> IF isdata
                                 THEN ToString(node.docs_count) \o "|"
                                        \o ToString(node.docs_deleted)
                                 ELSE "-|-" ],
          counters |-> [gc |-> gc.store, fd |-> fd.store, hconn |-> hc.store] ]

\* The row of a present node and the counter stores after building it.
process_node(role, node, counters, master) ==
    LET gc == get_gc_stats(counters.gc, node.name, node)
        fd == get_fd_stats(counters.fd, node.name, node.evictions, node.tripped)
        hc == get_http_conns(counters.hconn, node.name, node)
        isdata == role \in {"DATA", "ALL"}
    IN  [ row |->
            [ kind           |-> "node",
              name           |-> node.name,
              role           |-> IF node.name = master THEN role \o "*" ELSE role,
              old_gc         |-> gc.old_gc,
              young_gc       |-> gc.young_gc,
              fielddata      |-> fd.text,
              http_conn      |-> hc.text,
              merge_time     |-> IF isdata THEN node.merges_time ELSE "-",
              store_throttle |-> IF isdata THEN node.throttle_time ELSE "-",
              docs           |-> IF isdata
                                 THEN ToString(node.docs_count) \o "|"
                                        \o ToString(node.docs_deleted)
                                 ELSE "-|-" ],
          counters |-> [gc |-> gc.store, fd |-> fd.store, hconn |-> hc.store] ]

\* The row of a known node the snapshot does not hold.
failed_node(name, role) ==
    [kind |-> "failed", name |-> name, role |-> "(" \o role \o ")"]

\* ------------------------------------------------------------ process_role
\* An entry of the queue: the row, tagged with the id it was built for (the
\* tag is not part of the text; it tells the rows of two ids of one name apart).
Entry(node_id, line) == [id |-> node_id, line |-> line]

\* MoveNode that forgets the remove.
MoveNode_append_only(by_role, role, current_role, node_id) ==
    LET target == IF current_role \in DOMAIN by_role THEN by_role[current_role] ELSE <<>>
    IN  Put(by_role, current_role, Append(target, node_id))

\* setdefault(current_role, []).append(node_id), then [role].remove(node_id).
MoveNode(by_role, role, current_role, node_id) ==
    LET target == IF current_role \in DOMAIN by_role THEN by_role[current_role] ELSE <<>>
        added  == Put(by_role, current_role, Append(target, node_id))
    IN  [added EXCEPT ![role] = Remove(@, node_id)]

\* The body of "for node_id in self.nodes_by_role[role]" from list index i on.
\* The list iterator keeps an index into the live list: it reads element i of
\* the list as it is now, and stops when i passes the list's current length.
\* st = [by_role, counters, results].
RECURSIVE process_role_from(_, _, _, _, _, _)
process_role_from(role, i, st, stats, names, master) ==
    IF i > Len(st.by_role[role]) THEN st
    ELSE
        LET node_id == st.by_role[role][i] IN
        IF node_id \notin DOMAIN stats
        THEN process_role_from(role, i + 1,
                 [st EXCEPT !.results =
                     Append(@, Entry(node_id, failed_node(names[node_id], role)))],
                 stats, names, master)
        ELSE
            LET current_role == get_role(stats[node_id].attributes)
                pn == process_node(current_role, stats[node_id], st.counters, master)
            IN  process_role_from(role, i + 1,
                    [ by_role  |-> IF current_role # role
                                   THEN MoveNode(st.by_role, role, current_role, node_id)
                                   ELSE st.by_role,
                      counters |-> pn.counters,
                      results  |-> Append(st.results, Entry(node_id, pn.row)) ],
                    stats, names, master)

process_role(role, st, stats, names, master) ==
    process_role_from(role, 1, st, stats, names, master)

\* ------------------------------------------------------------- printStats
\* Registration of the ids of 'order', one after the other (lines 242-245 and
\* 253-256).  tp = [list, names, by_role].
RECURSIVE Register(_, _, _)
Register(order, stats, tp) ==
    IF order = <<>> THEN tp
    ELSE
        LET node_id   == Head(order)
            node_role == get_role(stats[node_id].attributes)
            bucket    == IF node_role \in DOMAIN tp.by_role
                         THEN tp.by_role[node_role] ELSE <<>>
        IN  Register(Tail(order), stats,
                [ list    |-> Append(tp.list, node_id),
                  names   |-> Put(tp.names, node_id, stats[node_id].name),
                  by_role |-> Put(tp.by_role, node_role, Append(bucket, node_id)) ])

\* JoinedIds that registers the whole snapshot whenever it holds more nodes
\* than the list.
JoinedIds_whole(list, stats) ==
    IF Len(list) = 0 THEN DOMAIN stats
    ELSE IF Cardinality(DOMAIN stats) > Len(list)
         THEN DOMAIN stats
         ELSE {}

\* The ids the iteration registers: all of the snapshot on the first run;
\* later the ids not yet listed, looked for only when the snapshot holds more
\* nodes than the list.
JoinedIds(list, stats) ==
    IF Len(list) = 0 THEN DOMAIN stats
    ELSE IF Cardinality(DOMAIN stats) > Len(list)
         THEN DOMAIN stats \ SeqToSet(list)
         ELSE {}

\* The orders a dict can enumerate the keys of 'keys' in, after it enumerated
\* its earlier keys in the order 'before': a new key lands in any slot, the
\* keys already there keep their slots (five role keys never resize the table).
KeyOrders(before, keys) ==
    {o \in Orders(keys) : SelectSeq(o, LAMBDA k : k \in SeqToSet(before)) = before}

\* History: what the last metrics row of each id was built from, after the
\* rows 'added' were built from the snapshot 'stats'; 'away' tells that an
\* iteration has finished since whose snapshot did not hold the id.
Observation(doc) ==
    [ name |-> doc.name, away |-> FALSE,
      old |-> doc.gc_old_count, young |-> doc.gc_young_count,
      fde |-> doc.evictions, fdt |-> doc.tripped, opened |-> doc.total_opened ]
Observed(last, added, stats) ==
    LET ids == {added[k].id : k \in {j \in DOMAIN added : added[j].line.kind = "node"}}
    IN  [n \in (DOMAIN last) \cup ids |->
            IF n \in ids THEN Observation(stats[n]) ELSE last[n]]

Missed(last, stats) ==
    [n \in DOMAIN last |->
        IF n \in DOMAIN stats THEN last[n] ELSE [last[n] EXCEPT !.away = TRUE]]

NoIter == [pos |-> 0, size |-> 0]
NoStats == EmptyMap
NoHealth == [cluster_name |-> "", status |-> ""]

Line(l) == Entry(0, l)
ClusterHeadings == Line([kind |-> "cluster_headings"])
ClusterRow(h) == Line([kind |-> "cluster", cluster_name |-> h.cluster_name,
                       status |-> h.status])
NodeHeadings == Line([kind |-> "node_headings"])
Blank == Line([kind |-> "blank"])

Init ==
    /\ node_counters = [gc |-> EmptyMap, fd |-> EmptyMap, hconn |-> EmptyMap]
    /\ nodes_list = <<>>
    /\ nodes_by_role = EmptyMap
    /\ role_order = <<>>
    /\ node_names = EmptyMap
    /\ new_nodes = <<>>
    /\ active_master = ""
    /\ cluster_health = NoHealth
    /\ nodes_stats = NoStats
    /\ node_results = <<>>
    /\ role_iter = NoIter
    /\ out = <<>>
    /\ pc = "fetch"
    /\ cluster \in Clusters
    /\ seen = {}
    /\ elected = 0
    /\ last_obs = EmptyMap

\* Lines 226-256: the three fetches succeed, the cluster rows are printed and
\* the joined ids are registered; the walk over the role buckets is set up.
Fetch ==
    /\ pc = "fetch"
    /\ \E snap \in SnapshotsOf(cluster), e \in cluster.masters :
       \E m \in MasterNames(cluster, snap, e) :
         \E order \in Orders(JoinedIds(nodes_list, snap)) :
           LET tp == Register(order, snap,
                        [list |-> nodes_list, names |-> node_names,
                         by_role |-> nodes_by_role])
           IN  \E ro \in KeyOrders(role_order, DOMAIN tp.by_role) :
                 /\ cluster_health' = HealthDoc
                 /\ nodes_stats' = snap
                 /\ active_master' = m
                 /\ elected' = e
                 /\ out' = <<ClusterHeadings, ClusterRow(HealthDoc), Blank>>
                 /\ new_nodes' = IF Len(nodes_list) = 0 THEN new_nodes ELSE order
                 /\ nodes_list' = tp.list
                 /\ node_names' = tp.names
                 /\ nodes_by_role' = tp.by_role
                 /\ role_order' = ro
                 /\ role_iter' = [pos |-> 0, size |-> Len(ro)]
    /\ pc' = "roles"
    /\ UNCHANGED <<node_counters, node_results, cluster, seen, last_obs>>

\* FetchFail of a loop that prints the cluster rows as soon as it has the
\* health document.
FetchFail_printing(k) ==
    /\ pc = "fetch"
    /\ \E snap \in SnapshotsOf(cluster) :
         /\ cluster_health' = IF k > 1 THEN HealthDoc ELSE cluster_health
         /\ nodes_stats' = IF k > 2 THEN snap ELSE nodes_stats
    /\ out' = IF k > 1 THEN <<ClusterHeadings, ClusterRow(HealthDoc), Blank>> ELSE out
    /\ pc' = "aborted"
    /\ UNCHANGED <<node_counters, nodes_list, nodes_by_role, role_order, node_names,
                   new_nodes, active_master, node_results, role_iter, cluster, seen, elected, last_obs>>

\* Lines 226-228: fetch number k raises; the exception leaves printStats.
FetchFail(k) ==
    /\ pc = "fetch"
    /\ \E snap \in SnapshotsOf(cluster) :
         /\ cluster_health' = IF k > 1 THEN HealthDoc ELSE cluster_health
         /\ nodes_stats' = IF k > 2 THEN snap ELSE nodes_stats
    /\ pc' = "aborted"
    /\ UNCHANGED <<node_counters, nodes_list, nodes_by_role, role_order, node_names,
                   new_nodes, active_master, node_results, role_iter, out, cluster, seen, elected, last_obs>>

\* Lines 258-259: the dict iterator yields the next role and process_role
\* walks its bucket.
ProcessRole ==
    /\ pc = "roles"
    /\ Len(role_order) = role_iter.size
    /\ role_iter.pos < Len(role_order)
    /\ LET role == role_order[role_iter.pos + 1]
           st   == process_role(role,
                       [by_role |-> nodes_by_role, counters |-> node_counters,
                        results |-> node_results],
                       nodes_stats, node_names, active_master)
       IN  /\ nodes_by_role' = st.by_role
           /\ node_counters' = st.counters
           /\ node_results' = st.results
           /\ last_obs' = Observed(last_obs,
                               SubSeq(st.results, Len(node_results) + 1,
                                      Len(st.results)),
                               nodes_stats)
           /\ role_order' \in KeyOrders(role_order, DOMAIN st.by_role)
    /\ role_iter' = [role_iter EXCEPT !.pos = @ + 1]
    /\ UNCHANGED <<nodes_list, node_names, new_nodes, active_master, cluster_health,
                   nodes_stats, out, pc, cluster, seen, elected>>

\* Line 258: the dict iterator finds that the dict gained a key since the loop
\* began and raises RuntimeError; the exception leaves printStats.
IterError ==
    /\ pc = "roles"
    /\ Len(role_order) # role_iter.size
    /\ pc' = "crashed"
    /\ UNCHANGED <<node_counters, nodes_list, nodes_by_role, role_order, node_names,
                   new_nodes, active_master, cluster_health, nodes_stats,
                   node_results, role_iter, out, cluster, seen, elected, last_obs>>

\* Lines 262-265: the loop over the roles is over; the node rows are printed
\* in queue order.
PrintNodes ==
    /\ pc = "roles"
    /\ Len(role_order) = role_iter.size
    /\ role_iter.pos = Len(role_order)
    /\ out' = out \o <<NodeHeadings>> \o node_results \o <<Blank>>
    /\ node_results' = <<>>
    /\ pc' = "sleep"
    /\ UNCHANGED <<node_counters, nodes_list, nodes_by_role, role_order, node_names,
                   new_nodes, active_master, cluster_health, nodes_stats,
                   role_iter, cluster, seen, elected, last_obs>>

\* Line 266 and the jump back to line 225.  The locals of the finished
\* iteration are dead from here on (each is assigned again before it is read).
Sleep ==
    /\ pc = "sleep"
    /\ pc' = "fetch"
    /\ cluster_health' = NoHealth
    /\ nodes_stats' = NoStats
    /\ role_iter' = NoIter
    /\ out' = <<>>
    /\ seen' = seen \cup DOMAIN nodes_stats
    /\ last_obs' = Missed(last_obs, nodes_stats)
    /\ UNCHANGED <<node_counters, nodes_list, nodes_by_role, role_order, node_names,
                   new_nodes, active_master, node_results, cluster, elected>>

\* Interrupt of a handler that prints the queued rows before it exits.
Interrupt_flushing ==
    /\ pc \in {"fetch", "roles", "sleep"}
    /\ pc' = "exited"
    /\ out' = out \o node_results
    /\ node_results' = <<>>
    /\ UNCHANGED <<node_counters, nodes_list, nodes_by_role, role_order, node_names,
                   new_nodes, active_master, cluster_health, nodes_stats,
                   role_iter, cluster, seen, elected, last_obs>>

\* Line 313: SIGINT runs sys.exit() wherever printStats is.
Interrupt ==
    /\ pc \in {"fetch", "roles", "sleep"}
    /\ pc' = "exited"
    /\ UNCHANGED <<node_counters, nodes_list, nodes_by_role, role_order, node_names,
                   new_nodes, active_master, cluster_health, nodes_stats,
                   node_results, role_iter, out, cluster, seen, elected, last_obs>>

Next ==
    \/ Fetch
    \/ \E k \in 1..3 : FetchFail(k)
    \/ ProcessRole
    \/ IterError
    \/ PrintNodes
    \/ Sleep
    \/ Interrupt

Spec == Init /\ [][Next]_vars

\* ================================================================ claims
Known == SeqToSet(nodes_list)
Present == DOMAIN nodes_stats
\* The ids of the running iteration's snapshot that no earlier snapshot held.
FirstObserved == Present \ seen
\* The printed rows that were built for node n.
Records(n) == {i \in DOMAIN out : out[i].id = n}
NodeRows == {i \in DOMAIN out : out[i].id # 0 /\ out[i].line.kind = "node"}
RoleOfLabel(label, r) == label = r \/ label = r \o "*"
\* How often n occurs in the role buckets, all buckets together.
Occurrences(n) ==
    Cardinality({ri \in UNION {{<<r, i>> : i \in DOMAIN nodes_by_role[r]} :
                               r \in DOMAIN nodes_by_role} :
                    nodes_by_role[ri[1]][ri[2]] = n})
InBucket(n, r) == r \in DOMAIN nodes_by_role /\ Count(nodes_by_role[r], n) = 1
MaxOf(S) == CHOOSE j \in S : \A i \in S : i <= j

\* C1: in a finished iteration every known node has exactly one printed row:
\* a metrics row when the snapshot holds it, a "no data" row when it does not.
C1_ExactlyOneRecord ==
    pc = "sleep" =>
        \A n \in Known :
            /\ Cardinality(Records(n)) = 1
            /\ \A i \in Records(n) :
                 out[i].line.kind = IF n \in Present THEN "node" ELSE "failed"

\* C2: once the fetch and the registration of an iteration are done, every id
\* of the snapshot is known, has its name recorded, sits in the bucket of its
\* classified role if it joined in this iteration, and has a row when the
\* iteration is over.
C2_JoinedRegistered ==
    pc \in {"roles", "sleep", "crashed"} =>
        /\ \A n \in Present :
             /\ n \in Known
             /\ n \in DOMAIN node_names
             /\ pc = "sleep" => Records(n) # {}
        /\ (pc = "roles" /\ role_iter.pos = 0) =>
             \A n \in SeqToSet(new_nodes) :
                 InBucket(n, get_role(nodes_stats[n].attributes))

\* C3: the row of a node id that this iteration's snapshot holds for the first
\* time shows the "no baseline" text in each diffed counter field.
C3_FirstObservationSentinel ==
    pc = "sleep" =>
        \A i \in NodeRows :
            out[i].id \in FirstObserved =>
                /\ out[i].line.old_gc = "-|-"
                /\ out[i].line.young_gc = "-|-"
                /\ out[i].line.fielddata = "-|-"
                /\ out[i].line.http_conn =
                       ToString(nodes_stats[out[i].id].current_open) \o "|-"

\* The cumulative readings of a node document, and those the stores hold for
\* a name.
Readings(doc) ==
    [ old |-> doc.gc_old_count, young |-> doc.gc_young_count,
      fde |-> doc.evictions, fdt |-> doc.tripped, opened |-> doc.total_opened ]
Stored(counters, name) ==
    [ old |-> counters.gc[name].old, young |-> counters.gc[name].young,
      fde |-> counters.fd[name].fde, fdt |-> counters.fd[name].fdt,
      opened |-> counters.hconn[name] ]
HasStored(counters, name) ==
    /\ name \in DOMAIN counters.gc
    /\ name \in DOMAIN counters.fd
    /\ name \in DOMAIN counters.hconn

\* The rows one process_role call puts into the queue.
Added == SubSeq(node_results', Len(node_results) + 1, Len(node_results'))
\* The rows of the call, before row k, that were built under the name of row k.
EarlierSameName(k) ==
    {j \in 1..(k - 1) : /\ Added[j].line.kind = "node"
                        /\ Added[j].line.name = Added[k].line.name}
\* The baseline row k is diffed against: the readings of the last observation
\* under its name.
HasBaseline(k) ==
    EarlierSameName(k) # {} \/ HasStored(node_counters, Added[k].line.name)
Baseline(k) ==
    IF EarlierSameName(k) # {}
    THEN Readings(nodes_stats[Added[MaxOf(EarlierSameName(k))].id])
    ELSE Stored(node_counters, Added[k].line.name)
LastUnderName(k) ==
    \A j \in (k + 1)..Len(Added) :
        Added[j].line.kind = "node" => Added[j].line.name # Added[k].line.name

\* C4: whenever process_role builds a metrics row for a node whose counters
\* have a stored baseline v0 and whose reading v1 is not below it, the row
\* shows v1 - v0 for that counter, and the store holds v1 afterwards.
C4_DeltaExact ==
    [][ (pc = "roles" /\ pc' = "roles" /\ role_iter'.pos = role_iter.pos + 1) =>
          \A k \in DOMAIN Added :
              Added[k].line.kind = "node" =>
                  LET row == Added[k].line
                      v1  == Readings(nodes_stats[Added[k].id])
                  IN  /\ HasBaseline(k) =>
                          LET v0 == Baseline(k) IN
                          /\ v1.old >= v0.old =>
                               row.old_gc = ToString(v1.old - v0.old) \o "|"
                                              \o ToString(v1.old - v0.old) \o "ms"
                          /\ v1.young >= v0.young =>
                               row.young_gc = ToString(v1.young - v0.young) \o "|"
                                                \o ToString(v1.young - v0.young) \o "ms"
                          /\ (v1.fde >= v0.fde /\ v1.fdt >= v0.fdt) =>
                               row.fielddata = ToString(v1.fde - v0.fde) \o "|"
                                                 \o ToString(v1.fdt - v0.fdt)
                          /\ v1.opened >= v0.opened =>
                               row.http_conn =
                                   ToString(nodes_stats[Added[k].id].current_open)
                                     \o "|" \o ToString(v1.opened - v0.opened)
                      /\ LastUnderName(k) =>
                          /\ HasStored(node_counters', row.name)
                          /\ Stored(node_counters', row.name) = v1
      ]_vars

\* A finished iteration printed a row with a positive delta in every diffed
\* field, and the stores hold the readings behind it.
C4_Witness ==
    /\ pc = "sleep"
    /\ \E i \in NodeRows :
         /\ out[i].line.old_gc = "1|1ms"
         /\ out[i].line.young_gc = "2|2ms"
         /\ out[i].line.fielddata = "3|4"
         /\ out[i].line.http_conn = "31|5"
         /\ Stored(node_counters, out[i].line.name) =
                Readings(nodes_stats[out[i].id])
         /\ \A m \in Known \ {out[i].id} : node_names[m] # out[i].line.name

\* C5: every known node id occurs in the role buckets exactly once.
C5_OneBucket ==
    /\ \A n \in Known : Occurrences(n) = 1
    /\ \A r \in DOMAIN nodes_by_role : SeqToSet(nodes_by_role[r]) \subseteq Known

\* A finished iteration in which a node left its bucket for another one.
C5_Witness ==
    /\ pc = "sleep"
    /\ \E r \in DOMAIN nodes_by_role : nodes_by_role[r] = <<>>
    /\ \E n \in Known \cap Present :
         /\ InBucket(n, get_role(nodes_stats[n].attributes))
         /\ Cardinality(Records(n)) = 2

\* C6: no iteration dies in the walk over the role buckets, and when an
\* iteration is over every known node of the snapshot sits in the bucket of
\* the role its attributes classify to, in no other, and each of its rows
\* shows that role.
C6_RoleChangeHandled ==
    /\ pc # "crashed"
    /\ pc = "sleep" =>
         \A n \in Known \cap Present :
             LET r == get_role(nodes_stats[n].attributes) IN
             /\ InBucket(n, r)
             /\ Occurrences(n) = 1
             /\ \A i \in Records(n) :
                  out[i].line.kind = "node" /\ RoleOfLabel(out[i].line.role, r)

\* C7: when an iteration is over, every known node the snapshot does not hold
\* has a "no data" row with its stored name and the parenthesized role of the
\* bucket it sits in, and it is still known, named and in that bucket.
C7_DepartedDegraded ==
    pc = "sleep" =>
        \A n \in Known \ Present :
            /\ n \in DOMAIN node_names
            /\ \E r \in DOMAIN nodes_by_role :
                 /\ InBucket(n, r)
                 /\ Records(n) # {}
                 /\ \A i \in Records(n) :
                      /\ out[i].line.kind = "failed"
                      /\ out[i].line.name = node_names[n]
                      /\ out[i].line.role = "(" \o r \o ")"

\* The role table of the classifier: a flag that is left out counts as "true".
Flag(attributes, k) == IF k \in DOMAIN attributes THEN attributes[k] ELSE "true"
TableRole(attributes) ==
    LET md == <<Flag(attributes, "master"), Flag(attributes, "data")>>
    IN  CASE md = <<"true", "true">>   -> "ALL"
          [] md = <<"true", "false">>  -> "MST"
          [] md = <<"false", "true">>  -> "DATA"
          [] md = <<"false", "false">> -> "RTR"
          [] OTHER                     -> "UNK"

\* The rows built in the running iteration: those still queued and those
\* printed.
BuiltRows ==
    {e \in SeqToSet(node_results) \cup SeqToSet(out) : e.id # 0 /\ e.line.kind = "node"}

\* C8: the role a metrics row shows is the one the role table gives for the
\* attributes of the row's node in the snapshot.
C8_RoleTable ==
    \A e \in BuiltRows :
        RoleOfLabel(e.line.role, TableRole(nodes_stats[e.id].attributes))

\* A printed row of a node with a malformed data flag and master disabled.
C8_Witness ==
    /\ pc = "sleep"
    /\ \E e \in BuiltRows :
         /\ nodes_stats[e.id].attributes =
                [k \in {"master", "data"} |-> IF k = "data" THEN "maybe" ELSE "false"]
         /\ e.line.role \in {"UNK", "UNK*"}

\* C9: a step that ends in the abort of a failed fetch prints nothing, queues
\* nothing and leaves the topology, the counters and the elected master as
\* they were.
C9_FetchFailureAborts ==
    [][ pc' = "aborted" =>
          /\ out' = <<>>
          /\ node_results' = <<>>
          /\ UNCHANGED <<node_counters, nodes_list, nodes_by_role, role_order,
                         node_names, new_nodes, active_master>>
      ]_vars

\* The third fetch failed in an iteration that follows one with known nodes.
C9_Witness ==
    /\ pc = "aborted"
    /\ Known # {}
    /\ Present # {}
    /\ cluster_health = HealthDoc

\* C10: a metrics row carries the merge time, the store throttle time and the
\* document counts of its node exactly when its role is DATA or ALL; with any
\* other role the three fields are the placeholders.
C10_IndicesOnlyForData ==
    \A e \in BuiltRows :
        LET doc == nodes_stats[e.id] IN
        IF e.line.role \in {"DATA", "DATA*", "ALL", "ALL*"}
        THEN /\ e.line.merge_time = doc.merges_time
             /\ e.line.store_throttle = doc.throttle_time
             /\ e.line.docs = ToString(doc.docs_count) \o "|" \o ToString(doc.docs_deleted)
        ELSE /\ e.line.merge_time = "-"
             /\ e.line.store_throttle = "-"
             /\ e.line.docs = "-|-"

\* A finished iteration printed placeholders for a master-only node and the
\* indices metrics for a data node.
C10_Witness ==
    /\ pc = "sleep"
    /\ \E e \in BuiltRows :
         /\ e.line.role \in {"MST", "MST*"}
         /\ e.line.merge_time = "-"
         /\ e.line.docs = "-|-"
    /\ \E e \in BuiltRows :
         /\ e.line.role \in {"DATA", "DATA*"}
         /\ e.line.merge_time = nodes_stats[e.id].merges_time

RoleNames == {"ALL", "MST", "DATA", "RTR", "UNK"}
Starred(label) == \E r \in RoleNames : label = r \o "*"

\* C11: a metrics row's role label ends in "*" exactly when the row's node is
\* the elected master, and the label's role is the bucket the node sits in.
C11_StarIffElected ==
    \A e \in BuiltRows :
        /\ Starred(e.line.role) <=> (e.id = elected)
        /\ \E r \in RoleNames : RoleOfLabel(e.line.role, r) /\ InBucket(e.id, r)

\* C12 as stated: the process exits only from between two iterations, never
\* from inside the walk over the role buckets.
C12_ExitOnlyBetweenCycles ==
    [][ pc' = "exited" => pc \in {"fetch", "sleep", "exited"} ]_vars

\* C12 as amended: an interrupt ends the loop wherever it arrives, also in the
\* middle of an iteration, and the exit prints nothing and changes no state
\* beside the position: rows queued by then stay unprinted.
C12_ExitAnywhereAsIs ==
    [][ (pc # "exited" /\ pc' = "exited") =>
          /\ pc \in {"fetch", "roles", "sleep"}
          /\ UNCHANGED <<node_counters, nodes_list, nodes_by_role, role_order,
                         node_names, new_nodes, active_master, cluster_health,
                         nodes_stats, node_results, role_iter, out>>
      ]_vars

\* The process exited inside an iteration, with rows built and not printed.
C12_Witness ==
    /\ pc = "exited"
    /\ node_results # <<>>
    /\ \A i \in DOMAIN out : out[i].id = 0

\* C13: the loop is over only after an interrupt or a failed fetch.
C13_EndsOnlyByInterruptOrFailure ==
    pc \in {"fetch", "roles", "sleep", "exited", "aborted"}

\* C14: when an iteration is over, every known node has a counter entry in
\* each of the three stores and shares it with no other known node.
C14_OwnCounterEntry ==
    pc = "sleep" =>
        \A n \in Known :
            /\ HasStored(node_counters, node_names[n])
            /\ \A m \in Known \ {n} : node_names[m] # node_names[n]

\* The rows of one process_role call, before row k, built for the id of row k.
EarlierSameId(k) ==
    {j \in 1..(k - 1) : Added[j].line.kind = "node" /\ Added[j].id = Added[k].id}
\* The four diffed fields of a row that shows the differences v1 - v0.
ShowsDeltas(row, current_open, v1, v0) ==
    /\ row.old_gc = ToString(v1.old - v0.old) \o "|" \o ToString(v1.old - v0.old) \o "ms"
    /\ row.young_gc = ToString(v1.young - v0.young) \o "|"
                        \o ToString(v1.young - v0.young) \o "ms"
    /\ row.fielddata = ToString(v1.fde - v0.fde) \o "|" \o ToString(v1.fdt - v0.fdt)
    /\ row.http_conn = ToString(current_open) \o "|" \o ToString(v1.opened - v0.opened)
ReadingsOf(obs) ==
    [ old |-> obs.old, young |-> obs.young, fde |-> obs.fde, fdt |-> obs.fdt,
      opened |-> obs.opened ]
StoreKeys(counters) ==
    <<DOMAIN counters.gc, DOMAIN counters.fd, DOMAIN counters.hconn>>

\* C15: no step removes a key from a counter store, and the first row built
\* for a node that was away for an iteration or more shows the differences to
\* the readings of the node's last row before it left.
C15_RejoinResumes ==
    [][ /\ \A g \in 1..3 : StoreKeys(node_counters)[g] \subseteq StoreKeys(node_counters')[g]
        /\ (pc = "roles" /\ pc' = "roles" /\ role_iter'.pos = role_iter.pos + 1) =>
             \A k \in DOMAIN Added :
                 ( /\ Added[k].line.kind = "node"
                   /\ Added[k].id \in DOMAIN last_obs
                   /\ last_obs[Added[k].id].away
                   /\ EarlierSameId(k) = {} ) =>
                     ShowsDeltas(Added[k].line,
                                 nodes_stats[Added[k].id].current_open,
                                 Readings(nodes_stats[Added[k].id]),
                                 ReadingsOf(last_obs[Added[k].id]))
      ]_vars

\* C16: when an iteration is over, the stored name of every known node of the
\* snapshot is the name the snapshot gives it, and the "no data" row of a known
\* node outside the snapshot carries the name of the node's last metrics row.
C16_NameFollows ==
    pc = "sleep" =>
        /\ \A n \in Known \cap Present : node_names[n] = nodes_stats[n].name
        /\ \A n \in (Known \ Present) \cap DOMAIN last_obs :
             \A i \in Records(n) :
                 out[i].line.kind = "failed" => out[i].line.name = last_obs[n].name

\* C17: whenever process_role builds a metrics row for a node whose reading v1
\* is below the stored baseline v0, the row shows the negative number v1 - v0,
\* the store holds v1 afterwards, and the walk goes on.
C17_RegressionPassedThrough ==
    [][ (pc = "roles" /\ role_iter'.pos = role_iter.pos + 1) =>
          \A k \in DOMAIN Added :
              (Added[k].line.kind = "node" /\ HasBaseline(k)) =>
                  LET row == Added[k].line
                      v1  == Readings(nodes_stats[Added[k].id])
                      v0  == Baseline(k)
                  IN  (v1.old < v0.old \/ v1.young < v0.young \/ v1.fde < v0.fde
                          \/ v1.fdt < v0.fdt \/ v1.opened < v0.opened) =>
                        /\ ShowsDeltas(row, nodes_stats[Added[k].id].current_open, v1, v0)
                        /\ LastUnderName(k) => Stored(node_counters', row.name) = v1
                        /\ pc' = "roles"
      ]_vars

\* A finished iteration printed a row with a negative delta in every diffed
\* field, and the stores hold the lower readings.
C17_Witness ==
    /\ pc = "sleep"
    /\ \E i \in NodeRows :
         /\ out[i].line.old_gc = "-1|-1ms"
         /\ out[i].line.young_gc = "-2|-2ms"
         /\ out[i].line.fielddata = "-3|-4"
         /\ out[i].line.http_conn = "30|-5"
         /\ Stored(node_counters, out[i].line.name) = Readings(nodes_stats[out[i].id])
         /\ out[i].id \in seen
         /\ \A m \in (Known \cup Present) \ {out[i].id} :
                /\ m \in Known => node_names[m] # out[i].line.name
                /\ m \in Present => nodes_stats[m].name # out[i].line.name

BucketIds == UNION {SeqToSet(nodes_by_role[r]) : r \in DOMAIN nodes_by_role}

\* C18: nodes_list holds no id twice, its ids are the keys of node_names and
\* the ids of the role buckets, and no step takes an id out of it.
C18_TopologyConsistent ==
    /\ [](/\ \A n \in Known : Count(nodes_list, n) = 1
          /\ Known = DOMAIN node_names
          /\ Known = BucketIds)
    /\ [][ /\ Len(nodes_list') >= Len(nodes_list)
           /\ SubSeq(nodes_list', 1, Len(nodes_list)) = nodes_list ]_vars

\* A listed node has left the cluster and is still listed, named and in its
\* bucket, behind a node that is present.
C18_Witness ==
    /\ pc = "sleep"
    /\ Len(nodes_list) = 2
    /\ new_nodes = <<>>
    /\ nodes_list[2] \in seen \ Present
    /\ nodes_list[1] \in Present
    /\ \E r \in DOMAIN nodes_by_role : Len(nodes_by_role[r]) = 2

\* The readings the row k of a process_role call follows on: those of the
\* last metrics row built for the same id.
HasPrior(k) == EarlierSameId(k) # {} \/ Added[k].id \in DOMAIN last_obs
Prior(k) ==
    IF EarlierSameId(k) # {}
    THEN Readings(nodes_stats[Added[k].id])
    ELSE ReadingsOf(last_obs[Added[k].id])

\* C19: after a row is built the stores hold the readings of the row's node,
\* and every row of a node that had a row before shows the differences to the
\* readings of that node's previous row, so that the deltas of a node add up
\* to the difference of its readings.
C19_DeltasTelescope ==
    [][ (pc = "roles" /\ pc' = "roles" /\ role_iter'.pos = role_iter.pos + 1) =>
          \A k \in DOMAIN Added :
              Added[k].line.kind = "node" =>
                  /\ LastUnderName(k) =>
                       Stored(node_counters', Added[k].line.name) =
                           Readings(nodes_stats[Added[k].id])
                  /\ HasPrior(k) =>
                       ShowsDeltas(Added[k].line,
                                   nodes_stats[Added[k].id].current_open,
                                   Readings(nodes_stats[Added[k].id]),
                                   Prior(k))
      ]_vars

\* C20: outside the walk over the role buckets the queue is empty: every row
\* put into it is printed before the iteration that built it is over.
C20_QueueDrained ==
    pc \in {"fetch", "sleep", "aborted", "crashed"} => node_results = <<>>

====
